---- MODULE Spec2Model ----
(***************************************************************************)
(* A model of yt_scraper.py: the age normaliser (age_to_seconds), the      *)
(* nested field extractor (gen_dict_extract), the per-candidate body of    *)
(* YTScraper.search, the aggregator (trim_results, analyze_sources) and    *)
(* the run sequence of the __main__ block.                                 *)
(*                                                                         *)
(* Python values are represented as follows.                               *)
(*   str   a sequence of one-character strings (so that `in`, re.match and *)
(*         strptime can be computed), except for opaque names (topics,     *)
(*         sources, overlay texts), which are TLA+ strings;                *)
(*   dict  a sequence of [k, v] entries with distinct keys, in insertion   *)
(*         order (Python dicts iterate in insertion order);                *)
(*   list  a sequence;                                                     *)
(*   a raised exception is the field err of an outcome record.             *)
(***************************************************************************)
EXTENDS Integers, Sequences, FiniteSets, TLC

VARIABLES
    \* ---- the run of the __main__ block ----
    pc,             \* position in __main__ / search_topics / search
    phase,          \* 1: topics1 is being scraped, 2: topics2
    topics,         \* scraper.topics
    ti,             \* index of the topic the search_topics loop is at
    npulled,        \* candidates the generator has yielded for this page
    results,        \* search's local list `results`
    found,          \* search_topics' local dict `results`
    returned,       \* phases whose search_topics call has returned
    scraped1,       \* what search_topics returned for topics1
    scraped2,       \* what search_topics returned for topics2
    results1,       \* __main__'s results1
    results2,       \* __main__'s results2
    l,              \* __main__'s l
    analysis,       \* <<analysis1, analysis2>>
    pages_total,    \* scraper.pages_total
    results_total,  \* scraper.results_total
    error,          \* the exception that ended the run, "none" if none
    ageFailed,      \* history: age_to_seconds has raised on this run
    \* ---- one call of a pure function ----
    call,           \* "idle" before the call, "done" after it
    arg,            \* the call's arguments
    ret             \* the call's outcome

mainvars == <<pc, phase, topics, ti, npulled, results, found, returned,
              scraped1, scraped2, results1, results2, l, analysis,
              pages_total, results_total, error, ageFailed>>
callvars == <<call, arg, ret>>
vars == <<pc, phase, topics, ti, npulled, results, found, returned,
          scraped1, scraped2, results1, results2, l, analysis,
          pages_total, results_total, error, ageFailed, call, arg, ret>>

(***************************************************************************)
(* Bounds of the model.                                                    *)
(***************************************************************************)
\* most candidate records a page's generator yields
MaxCands == 2
\* longest result sequence of an aggregator input
MaxLen == 2
\* most queries in an aggregator input mapping
MaxQueries == 2
\* most nodes of an extractor input tree
MaxNodes == 5

(***************************************************************************)
(* Generic helpers.                                                        *)
(***************************************************************************)
Range(s) == {s[i] : i \in 1..Len(s)}

Min(a, b) == IF a < b THEN a ELSE b

Max(a, b) == IF a > b THEN a ELSE b

\* the sequences over S of length at most n
SeqsUpTo(S, n) == UNION {[1..k -> S] : k \in 0..n}

\* s is the prefix of t of length n
IsPrefixOfLen(s, t, n) == /\ Len(s) = n
                          /\ n <= Len(t)
                          /\ \A i \in 1..n : s[i] = t[i]

(***************************************************************************)
(* dict: a sequence of [k, v] entries with distinct keys.                  *)
(***************************************************************************)
DictHas(d, key) == \E i \in 1..Len(d) : d[i].k = key

DictGet(d, key) == d[CHOOSE i \in 1..Len(d) : d[i].k = key].v

\* d[key] = val: an existing key keeps its position, a new key is appended
DictSet(d, key, val) ==
    IF DictHas(d, key)
    THEN [i \in 1..Len(d) |-> IF d[i].k = key THEN [k |-> key, v |-> val] ELSE d[i]]
    ELSE Append(d, [k |-> key, v |-> val])

(***************************************************************************)
(* str: characters and literals.                                           *)
(***************************************************************************)
Digits == {"0", "1", "2", "3", "4", "5", "6", "7", "8", "9"}

Letters == {"a", "b", "c", "d", "e", "f", "g", "h", "i", "j", "k", "l", "m",
            "n", "o", "p", "q", "r", "s", "t", "u", "v", "w", "x", "y", "z",
            "A", "B", "C", "D", "E", "F", "G", "H", "I", "J", "K", "L", "M",
            "N", "O", "P", "Q", "R", "S", "T", "U", "V", "W", "X", "Y", "Z"}

\* the characters \d and \w match
IsDigit(c) == c \in Digits

IsWord(c) == c \in Letters \cup Digits \cup {"_"}

DigitVal(c) == CASE c = "0" -> 0 [] c = "1" -> 1 [] c = "2" -> 2 [] c = "3" -> 3
                 [] c = "4" -> 4 [] c = "5" -> 5 [] c = "6" -> 6 [] c = "7" -> 7
                 [] c = "8" -> 8 [] c = "9" -> 9

\* int(s) of a non-empty string of digits
RECURSIVE int(_)
int(s) == IF Len(s) = 0 THEN 0
          ELSE 10 * int(SubSeq(s, 1, Len(s) - 1)) + DigitVal(s[Len(s)])

\* sub in s
Contains(s, sub) ==
    \E i \in 1..(Len(s) - Len(sub) + 1) : SubSeq(s, i, i + Len(sub) - 1) = sub

\* the length of the longest run of digits (of word characters) starting at s[i]
RECURSIVE DigitRunLen(_, _)
DigitRunLen(s, i) == IF i <= Len(s) /\ IsDigit(s[i]) THEN 1 + DigitRunLen(s, i + 1) ELSE 0

RECURSIVE WordRunLen(_, _)
WordRunLen(s, i) == IF i <= Len(s) /\ IsWord(s[i]) THEN 1 + WordRunLen(s, i + 1) ELSE 0

S_vor == <<"v", "o", "r">>
S_vor_sp == <<"v", "o", "r", " ">>
U_Sekunde == <<"S", "e", "k", "u", "n", "d", "e">>
U_Sekunden == <<"S", "e", "k", "u", "n", "d", "e", "n">>
U_Minute == <<"M", "i", "n", "u", "t", "e">>
U_Minuten == <<"M", "i", "n", "u", "t", "e", "n">>
U_Stunde == <<"S", "t", "u", "n", "d", "e">>
U_Stunden == <<"S", "t", "u", "n", "d", "e", "n">>
U_Tag == <<"T", "a", "g">>
U_Tagen == <<"T", "a", "g", "e", "n">>
U_Woche == <<"W", "o", "c", "h", "e">>
U_Wochen == <<"W", "o", "c", "h", "e", "n">>
U_Monat == <<"M", "o", "n", "a", "t">>
U_Monaten == <<"M", "o", "n", "a", "t", "e", "n">>
U_Jahr == <<"J", "a", "h", "r">>
U_Jahren == <<"J", "a", "h", "r", "e", "n">>

(***************************************************************************)
(* age_to_seconds.                                                         *)
(***************************************************************************)
Raise(kind) == [err |-> kind, val |-> 0]

Return(v) == [err |-> "none", val |-> v]

\* re.match(r"vor (\d+) (\w+)", s): anchored at the start of s, not at its
\* end. \d+ and \w+ are greedy; the character after \d+ must be a space, which
\* is no digit, so \d+ takes the whole run of digits.
re_match(s) ==
    LET nd == DigitRunLen(s, 5)
        nw == WordRunLen(s, 6 + nd)
    IN  IF /\ Len(s) >= 4
           /\ SubSeq(s, 1, 4) = S_vor_sp
           /\ nd >= 1
           /\ Len(s) >= 5 + nd
           /\ s[5 + nd] = " "
           /\ nw >= 1
        THEN [matched |-> TRUE,
              g1 |-> SubSeq(s, 5, 4 + nd),
              g2 |-> SubSeq(s, 6 + nd, 5 + nd + nw)]
        ELSE [matched |-> FALSE, g1 |-> <<>>, g2 |-> <<>>]

IsLeap(y) == (y % 4 = 0) /\ ((y % 100 # 0) \/ (y % 400 = 0))

DaysInMonth(y, m) == CASE m \in {1, 3, 5, 7, 8, 10, 12} -> 31
                       [] m \in {4, 6, 9, 11} -> 30
                       [] m = 2 -> IF IsLeap(y) THEN 29 ELSE 28

RECURSIVE DaysBeforeMonth(_, _)
DaysBeforeMonth(y, m) == IF m = 1 THEN 0
                         ELSE DaysBeforeMonth(y, m - 1) + DaysInMonth(y, m - 1)

\* date.toordinal(): the day number of y-m-d, 0001-01-01 being day 1
toordinal(y, m, d) ==
    LET p == y - 1
    IN  365 * p + (p \div 4) - (p \div 100) + (p \div 400) + DaysBeforeMonth(y, m) + d

\* The forms %d, %m and %Y accept
IsDayField(f) == \/ Len(f) = 1 /\ f[1] \in Digits \ {"0"}
                 \/ /\ Len(f) = 2
                    /\ \/ f[1] = "3" /\ f[2] \in {"0", "1"}
                       \/ f[1] \in {"1", "2"} /\ f[2] \in Digits
                       \/ f[1] \in {"0", " "} /\ f[2] \in Digits \ {"0"}

IsMonthField(f) == \/ Len(f) = 1 /\ f[1] \in Digits \ {"0"}
                   \/ /\ Len(f) = 2
                      /\ \/ f[1] = "1" /\ f[2] \in {"0", "1", "2"}
                         \/ f[1] = "0" /\ f[2] \in Digits \ {"0"}

IsYearField(f) == Len(f) = 4 /\ \A i \in 1..4 : f[i] \in Digits

FieldVal(f) == IF f[1] = " " THEN int(Tail(f)) ELSE int(f)

\* datetime.strptime(s, "%d.%m.%Y"): the whole of s must be day "." month "."
\* year, and the date must exist; every failure is a ValueError.
strptime(s) ==
    LET dots == {i \in 1..Len(s) : s[i] = "."}
    IN  IF Cardinality(dots) # 2 THEN Raise("ValueError")
        ELSE LET i1 == CHOOSE i \in dots : \A j \in dots : i <= j
                 i2 == CHOOSE i \in dots : \A j \in dots : j <= i
                 fd == SubSeq(s, 1, i1 - 1)
                 fm == SubSeq(s, i1 + 1, i2 - 1)
                 fy == SubSeq(s, i2 + 1, Len(s))
             IN  IF ~(IsDayField(fd) /\ IsMonthField(fm) /\ IsYearField(fy))
                 THEN Raise("ValueError")
                 ELSE LET y == int(fy)
                          m == FieldVal(fm)
                          d == FieldVal(fd)
                      IN  IF y < 1 \/ d > DaysInMonth(y, m)
                          THEN Raise("ValueError")
                          ELSE Return(toordinal(y, m, d))

\* (now - date).days, date at 00:00:00: timedelta normalises to
\* 0 <= seconds < 86400, so days is the floor of the difference
DeltaDays(now, dateOrd) ==
    ((toordinal(now.y, now.m, now.d) - dateOrd) * 86400 + now.sec) \div 86400

UnitSeconds(n, unit) ==
    CASE unit = U_Sekunde \/ unit = U_Sekunden -> Return(n)
      [] unit = U_Minute \/ unit = U_Minuten -> Return(60 * n)
      [] unit = U_Stunde \/ unit = U_Stunden -> Return(60 * 60 * n)
      [] unit = U_Tag \/ unit = U_Tagen -> Return(24 * 60 * 60 * n)
      [] unit = U_Woche \/ unit = U_Wochen -> Return(7 * 24 * 60 * 60 * n)
      [] unit = U_Monat \/ unit = U_Monaten -> Return(30 * 24 * 60 * 60 * n)
      [] unit = U_Jahr \/ unit = U_Jahren -> Return(30 * 24 * 60 * 60 * 12 * n)
      [] OTHER -> Raise("ValueError")

\* age_re[2] on age_re = None raises TypeError
age_to_seconds(age_str, now) ==
    IF Contains(age_str, S_vor)
    THEN LET age_re == re_match(age_str)
         IN  IF ~age_re.matched THEN Raise("TypeError")
             ELSE UnitSeconds(int(age_re.g1), age_re.g2)
    ELSE LET date == strptime(age_str)
         IN  IF date.err # "none" THEN date
             ELSE Return(24 * 60 * 60 * DeltaDays(now, date.val))

(***************************************************************************)
(* The state of the run before it starts; the specifications of a single   *)
(* call keep the run there, and the run's specification keeps the call     *)
(* variables at NoCall.                                                    *)
(***************************************************************************)
MainIdle == /\ pc = "set_topics"
            /\ phase = 1
            /\ topics = <<>>
            /\ ti = 1
            /\ npulled = 0
            /\ results = <<>>
            /\ found = <<>>
            /\ returned = {}
            /\ scraped1 = <<>>
            /\ scraped2 = <<>>
            /\ results1 = <<>>
            /\ results2 = <<>>
            /\ l = 0
            /\ analysis = <<>>
            /\ pages_total = 0
            /\ results_total = 0
            /\ error = "none"
            /\ ageFailed = FALSE

NoCall == /\ call = "none"
          /\ arg = <<>>
          /\ ret = <<>>

(***************************************************************************)
(* SpecAge: one call age_to_seconds(age_str) at wall-clock time now.       *)
(***************************************************************************)
RecognizedUnits == {U_Sekunde, U_Sekunden, U_Minute, U_Minuten, U_Stunde,
                    U_Stunden, U_Tag, U_Tagen, U_Woche, U_Wochen, U_Monat,
                    U_Monaten, U_Jahr, U_Jahren}

S_Lichtjahren == <<"L", "i", "c", "h", "t", "j", "a", "h", "r", "e", "n">>
S_kurzem == <<"k", "u", "r", "z", "e", "m">>
S_vor_kurzem == S_vor_sp \o S_kurzem
S_vor_3_Stunden == S_vor_sp \o <<"3", " ">> \o U_Stunden
S_vor_5_Lichtjahren == S_vor_sp \o <<"5", " ">> \o S_Lichtjahren
S_15_01_2023 == <<"1", "5", ".", "0", "1", ".", "2", "0", "2", "3">>

\* prefix "vor" " " number " " unit suffix
RelativeInputs ==
    {pre \o S_vor \o <<" ">> \o num \o <<" ">> \o unit \o suf :
        pre \in {<<>>, <<"Z", "u">>},
        num \in {<<"0">>, <<"3">>, <<"1", "2">>, <<>>, <<"x">>},
        unit \in RecognizedUnits \cup {S_Lichtjahren, S_kurzem},
        suf \in {<<>>, <<".">>, <<" ", "a", "l", "t">>}}

\* day "." month "." year suffix
DateInputs ==
    {dd \o <<".">> \o mm \o <<".">> \o yy \o suf :
        dd \in {<<"1">>, <<"0", "1">>, <<"1", "5">>, <<"2", "9">>, <<"3", "0">>,
                <<"3", "1">>, <<"3", "2">>, <<" ", "5">>, <<"0">>, <<"5", " ">>},
        mm \in {<<"1">>, <<"0", "2">>, <<"1", "2">>, <<"1", "3">>, <<"0", "0">>},
        yy \in {<<"2", "0", "2", "3">>, <<"2", "0", "2", "4">>, <<"2", "0", "2", "7">>,
                <<"2", "3">>, <<"0", "0", "0", "0">>},
        suf \in {<<>>, <<" ">>}}

OtherInputs ==
    {<<>>, S_vor, S_vor_kurzem, <<"g", "e", "s", "t", "e", "r", "n">>,
     <<"V", "o", "r", " ", "3", " ", "T", "a", "g", "e", "n">>,
     S_15_01_2023 \o <<" ", "b", "e", "v", "o", "r">>,
     <<"1", "5", ".", "0", "1", ".", "2", "0", "2", "3", ".">>,
     <<"1", "5", "-", "0", "1", "-", "2", "0", "2", "3">>}

AgeInputs == RelativeInputs \cup DateInputs \cup OtherInputs

\* values of datetime.now()
Nows == {[y |-> 2026, m |-> 11, d |-> 6, sec |-> 0],
         [y |-> 2024, m |-> 2, d |-> 29, sec |-> 86399]}

InitAge == /\ MainIdle
           /\ call = "idle"
           /\ arg \in [age_str : AgeInputs, now : Nows]
           /\ ret = <<>>

CallAge == /\ call = "idle"
           /\ ret' = age_to_seconds(arg.age_str, arg.now)
           /\ call' = "done"
           /\ UNCHANGED <<arg, mainvars>>

NextAge == CallAge

SpecAge == InitAge /\ [][NextAge]_vars

\* the inputs the age normaliser is specified to accept: a "vor <N> <unit>"
\* phrase with a recognised unit, or a DD.MM.YYYY date
IsRelativeAge(s) == re_match(s).matched /\ re_match(s).g2 \in RecognizedUnits

IsAbsoluteDate(s) == strptime(s).err = "none"

\* C5: for every accepted input string (a relative phrase with a recognised
\* unit, or a DD.MM.YYYY date) age_to_seconds returns a value, and the value
\* is a non-negative number of seconds.
C5_AcceptedAgeIsNonNegative ==
    (call = "done" /\ (IsRelativeAge(arg.age_str) \/ IsAbsoluteDate(arg.age_str)))
        => (ret.err = "none" /\ ret.val \in Nat)

\* C6: every input string that does not match "vor <N> <unit>" is treated as
\* a DD.MM.YYYY date: it returns the date's age when it is one and fails with
\* ValueError when it is not, and an unrecognised unit fails with ValueError
\* too; no other kind of failure occurs.
C6_NoMatchIsDateOrValueError ==
    call = "done" =>
        LET s == arg.age_str
            date == strptime(s)
        IN  /\ ~re_match(s).matched =>
                    ret = IF date.err = "none"
                          THEN Return(24 * 60 * 60 * DeltaDays(arg.now, date.val))
                          ELSE Raise("ValueError")
            /\ (re_match(s).matched /\ ~IsRelativeAge(s)) => ret = Raise("ValueError")
            /\ ret.err \in {"none", "ValueError"}

(***************************************************************************)
(* gen_dict_extract.                                                       *)
(*                                                                         *)
(* A JSON value is a node [t, c]: t is "dict", "list" or "scalar", and c   *)
(* is the sequence of its children [k, v] (k the key in a dict, "" in a    *)
(* list; a scalar has no children). A place in a tree is the path of child *)
(* indices that leads to it. The generator's yields are modelled with the  *)
(* path of each yielded value beside it, so that two occurrences of equal  *)
(* values stay apart.                                                      *)
(***************************************************************************)
RECURSIVE gen_dict_extract(_, _, _)
RECURSIVE ItemsLoop(_, _, _, _)
RECURSIVE ListLoop(_, _, _, _)

\* for d in v: for result in gen_dict_extract(key, d): yield result
ListLoop(key, elems, j, path) ==
    IF j > Len(elems) THEN <<>>
    ELSE gen_dict_extract(key, elems[j].v, Append(path, j))
            \o ListLoop(key, elems, j + 1, path)

\* ItemsLoop with the recursion into an item's value moved before the yield
\* of the item's own value
ItemsLoop_nested_first(key, items, i, path) ==
    IF i > Len(items) THEN <<>>
    ELSE LET k == items[i].k
             v == items[i].v
             p == Append(path, i)
         IN  (IF v.t = "dict" THEN gen_dict_extract(key, v, p)
              ELSE IF v.t = "list" THEN ListLoop(key, v.c, 1, p)
              ELSE <<>>)
                \o (IF k = key THEN <<[path |-> p, val |-> v]>> ELSE <<>>)
                \o ItemsLoop(key, items, i + 1, path)

\* for k, v in var.items(): the body, from the i-th item on
ItemsLoop(key, items, i, path) ==
    IF i > Len(items) THEN <<>>
    ELSE LET k == items[i].k
             v == items[i].v
             p == Append(path, i)
         IN  (IF k = key THEN <<[path |-> p, val |-> v]>> ELSE <<>>)
                \o (IF v.t = "dict" THEN gen_dict_extract(key, v, p)
                    ELSE IF v.t = "list" THEN ListLoop(key, v.c, 1, p)
                    ELSE <<>>)
                \o ItemsLoop(key, items, i + 1, path)

\* hasattr(var, "items") holds of a dict only
gen_dict_extract(key, var, path) ==
    IF var.t = "dict" THEN ItemsLoop(key, var.c, 1, path) ELSE <<>>

(***************************************************************************)
(* SpecExtract: one call list(gen_dict_extract(key, var)).                 *)
(***************************************************************************)
\* the keys of the modelled mappings
Keys == {"k", "a"}

\* a key that occurs in no modelled mapping
AbsentKey == "z"

Scalar == [t |-> "scalar", c |-> <<>>]

ListOf(f) == [t |-> "list", c |-> [i \in 1..Len(f) |-> [k |-> "", v |-> f[i]]]]

DictOf(ks, f) == [t |-> "dict", c |-> [i \in 1..Len(f) |-> [k |-> ks[i], v |-> f[i]]]]

\* the key lists of a dict with n items: no key twice
KeyLists(n) == {ks \in [1..n -> Keys] : \A i, j \in 1..n : ks[i] = ks[j] => i = j}

RECURSIVE TreesOfSize(_)
RECURSIVE ForestsOfSize(_)

\* the sequences of trees with n nodes in all
ForestsOfSize(n) ==
    IF n = 0 THEN {<<>>}
    ELSE UNION {{<<t>> \o f : t \in TreesOfSize(s), f \in ForestsOfSize(n - s)} :
                    s \in 1..n}

\* the trees with n nodes
TreesOfSize(n) ==
    IF n = 0 THEN {}
    ELSE (IF n = 1 THEN {Scalar} ELSE {})
            \cup {ListOf(f) : f \in ForestsOfSize(n - 1)}
            \cup UNION {{DictOf(ks, f) : ks \in KeyLists(Len(f))} :
                            f \in ForestsOfSize(n - 1)}

\* the trees with at most n nodes
TreesUpTo(n) == UNION {TreesOfSize(m) : m \in 1..n}

InitExtract == /\ MainIdle
               /\ call = "idle"
               /\ arg \in [key : Keys \cup {AbsentKey}, var : TreesUpTo(MaxNodes)]
               /\ ret = <<>>

CallExtract == /\ call = "idle"
               /\ ret' = gen_dict_extract(arg.key, arg.var, <<>>)
               /\ call' = "done"
               /\ UNCHANGED <<arg, mainvars>>

NextExtract == CallExtract

SpecExtract == InitExtract /\ [][NextExtract]_vars

RECURSIVE NodeAt(_, _)
NodeAt(n, p) == IF p = <<>> THEN n ELSE NodeAt(n.c[Head(p)].v, Tail(p))

RECURSIVE Paths(_)
Paths(n) == {<<>>} \cup UNION {{<<i>> \o q : q \in Paths(n.c[i].v)} : i \in 1..Len(n.c)}

Front(p) == SubSeq(p, 1, Len(p) - 1)

IsProperPrefix(p, q) == Len(p) < Len(q) /\ SubSeq(q, 1, Len(p)) = p

\* the places of the tree that are stored under `key` in a mapping
Occurrences(key, tree) ==
    {p \in Paths(tree) \ {<<>>} :
        /\ NodeAt(tree, Front(p)).t = "dict"
        /\ NodeAt(tree, Front(p)).c[p[Len(p)]].k = key}

\* p comes before q in document order: p is an ancestor of q, or p is in an
\* earlier child where the two paths part
DocBefore(p, q) ==
    \/ IsProperPrefix(p, q)
    \/ \E i \in 1..Min(Len(p), Len(q)) :
            /\ SubSeq(p, 1, i - 1) = SubSeq(q, 1, i - 1)
            /\ p[i] < q[i]

\* C4: gen_dict_extract yields every value stored under the key in a mapping
\* of the tree, at any nesting depth, once per occurrence (and so nothing when
\* the key occurs nowhere).
C4_YieldsEveryOccurrenceOnce ==
    call = "done" =>
        /\ {ret[i].path : i \in 1..Len(ret)} = Occurrences(arg.key, arg.var)
        /\ Len(ret) = Cardinality(Occurrences(arg.key, arg.var))
        /\ \A i \in 1..Len(ret) : ret[i].val = NodeAt(arg.var, ret[i].path)

DefaultMaxLength == 9999999

\* res[:n]: a negative n counts from the end
SliceTo(res, n) ==
    SubSeq(res, 1, IF n >= 0 THEN Min(n, Len(res)) ELSE Max(Len(res) + n, 0))

\* the first loop of trim_results, from the i-th entry on: max_length after it
RECURSIVE MinLengthLoop(_, _, _)
MinLengthLoop(res, i, max_length) ==
    IF i > Len(res) THEN max_length
    ELSE LET new_length == Len(res[i].v)
         IN  MinLengthLoop(res, i + 1,
                           IF new_length < max_length THEN new_length ELSE max_length)

\* trim_results without its first loop: every list is cut to the max_length
\* passed in
trim_results_no_min(res, max_length) ==
    [new_results |-> [i \in 1..Len(res) |->
                        [k |-> res[i].k, v |-> SliceTo(res[i].v, max_length)]],
     max_length |-> max_length]

trim_results(res, max_length) ==
    LET m == MinLengthLoop(res, 1, max_length)
    IN  [new_results |-> [i \in 1..Len(res) |->
                            [k |-> res[i].k, v |-> SliceTo(res[i].v, m)]],
         max_length |-> m]

(***************************************************************************)
(* analyze_sources.                                                        *)
(***************************************************************************)
\* sources[source] = {} followed by sources[source][topic] = 0 for each topic
RECURSIVE ZeroCounts(_, _)
ZeroCounts(topic_list, i) ==
    IF i = 0 THEN <<>> ELSE DictSet(ZeroCounts(topic_list, i - 1), topic_list[i], 0)

\* the records of a result mapping in the order the nested loops visit them
RECURSIVE Scan(_)
Scan(res) ==
    IF Len(res) = 0 THEN <<>>
    ELSE [j \in 1..Len(res[1].v) |-> [page_topic |-> res[1].k, page |-> res[1].v[j]]]
            \o Scan(Tail(res))

\* the body of the inner loop; sources[..][page_topic] += 1 raises KeyError
\* when page_topic is not a key
CountPage(acc, page_topic, page, topic_list) ==
    IF acc.err # "none" THEN acc
    ELSE LET src == page.source
             s1 == IF DictHas(acc.val, src) THEN acc.val
                   ELSE DictSet(acc.val, src, ZeroCounts(topic_list, Len(topic_list)))
             counts == DictGet(s1, src)
         IN  IF ~DictHas(counts, page_topic) THEN [err |-> "KeyError", val |-> <<>>]
             ELSE [err |-> "none",
                   val |-> DictSet(s1, src,
                                   DictSet(counts, page_topic,
                                           DictGet(counts, page_topic) + 1))]

RECURSIVE CountLoop(_, _, _)
CountLoop(scan, n, topic_list) ==
    IF n = 0 THEN [err |-> "none", val |-> <<>>]
    ELSE CountPage(CountLoop(scan, n - 1, topic_list),
                   scan[n].page_topic, scan[n].page, topic_list)

RECURSIVE SumValues(_)
SumValues(counts) ==
    IF Len(counts) = 0 THEN 0 ELSE counts[1].v + SumValues(Tail(counts))

\* the second loop: sources[source]["total"] = total
WithTotals(sources) ==
    [i \in 1..Len(sources) |->
        [k |-> sources[i].k,
         v |-> DictSet(sources[i].v, "total", SumValues(sources[i].v))]]

TotalOf(item) == DictGet(item.v, "total")

\* one insertion of a sort that puts an item before the items of equal total
InsertByTotal_before_equal(sorted, item) ==
    LET pos == Cardinality({j \in 1..Len(sorted) : TotalOf(sorted[j]) > TotalOf(item)})
    IN  SubSeq(sorted, 1, pos) \o <<item>> \o SubSeq(sorted, pos + 1, Len(sorted))

\* sorted(..., key=total, reverse=True) is stable: an item goes after the
\* items of greater or equal total that came before it
InsertByTotal(sorted, item) ==
    LET pos == Cardinality({j \in 1..Len(sorted) : TotalOf(sorted[j]) >= TotalOf(item)})
    IN  SubSeq(sorted, 1, pos) \o <<item>> \o SubSeq(sorted, pos + 1, Len(sorted))

RECURSIVE SortedByTotal(_, _)
SortedByTotal(items, n) ==
    IF n = 0 THEN <<>> ELSE InsertByTotal(SortedByTotal(items, n - 1), items[n])

analyze_sources(res, topic_list) ==
    LET scan == Scan(res)
        counted == CountLoop(scan, Len(scan), topic_list)
    IN  IF counted.err # "none" THEN counted
        ELSE LET sources == WithTotals(counted.val)
             IN  [err |-> "none", val |-> SortedByTotal(sources, Len(sources))]

(***************************************************************************)
(* SpecTrim and SpecAnalyze: one call of trim_results, of analyze_sources. *)
(***************************************************************************)
\* a result record as search builds it ("date", the wall-clock time of the
\* scrape, is left out)
Record(source, length) ==
    [page |-> 1, age |-> S_vor_3_Stunden, age_sec |-> 10800, source |-> source,
     title |-> "title", url |-> "videoId", length |-> length]

SampleRecords == {Record("A", "12:34"), Record("B", "LIVE"), Record("C", "12:34")}

\* the queries of the modelled result mappings
Queries == {"q1", "q2"}

\* the queries of the modelled query lists; "total" is a query like any other
ListedQueries == {"q1", "q2", "total"}

\* the lists of at most n queries, none twice, and one list with a query twice
QueryLists(n) ==
    {qs \in SeqsUpTo(ListedQueries, n) : \A i, j \in 1..Len(qs) : qs[i] = qs[j] => i = j}
        \cup {<<"q1", "q1">>}

\* the result mappings of at most MaxQueries queries with at most MaxLen
\* records each
ResultSetsOver(qs) ==
    {[i \in 1..Len(qs) |-> [k |-> qs[i], v |-> vs[i]]] :
        vs \in [1..Len(qs) -> SeqsUpTo(SampleRecords, MaxLen)]}

ResultSets(n) ==
    UNION {ResultSetsOver(qs) :
            qs \in {q \in SeqsUpTo(Queries, n) :
                        \A i, j \in 1..Len(q) : q[i] = q[j] => i = j}}

MaxLengths == ((0 - 2)..(MaxLen + 1)) \cup {DefaultMaxLength}

InitTrim == /\ MainIdle
            /\ call = "idle"
            /\ arg \in [results : ResultSets(MaxQueries), max_length : MaxLengths]
            /\ ret = <<>>

CallTrim == /\ call = "idle"
            /\ ret' = trim_results(arg.results, arg.max_length)
            /\ call' = "done"
            /\ UNCHANGED <<arg, mainvars>>

NextTrim == CallTrim

SpecTrim == InitTrim /\ [][NextTrim]_vars

InitAnalyze == /\ MainIdle
               /\ call = "idle"
               /\ arg \in [results : ResultSets(MaxQueries), topics : QueryLists(MaxQueries)]
               /\ ret = <<>>

CallAnalyze == /\ call = "idle"
               /\ ret' = analyze_sources(arg.results, arg.topics)
               /\ call' = "done"
               /\ UNCHANGED <<arg, mainvars>>

NextAnalyze == CallAnalyze

SpecAnalyze == InitAnalyze /\ [][NextAnalyze]_vars

\* min(max_length, minimum length over all sequences)
EffectiveLength(res, max_length) ==
    IF \E i \in 1..Len(res) : Len(res[i].v) < max_length
    THEN CHOOSE n \in {Len(res[i].v) : i \in 1..Len(res)} :
            \A i \in 1..Len(res) : n <= Len(res[i].v)
    ELSE max_length

\* res is trimmed to length n in out: the same queries in the same order,
\* each with the first n records of its sequence
TrimmedTo(out, res, n) ==
    /\ Len(out) = Len(res)
    /\ \A i \in 1..Len(res) :
            /\ out[i].k = res[i].k
            /\ IsPrefixOfLen(out[i].v, res[i].v, n)

\* C1: for every mapping and every integer max_length, trim_results returns
\* the effective length min(max_length, minimum sequence length), and every
\* returned sequence is the prefix of its input of exactly that length.
C1_TrimToEffectiveLength ==
    call = "done" =>
        /\ ret.max_length = EffectiveLength(arg.results, arg.max_length)
        /\ TrimmedTo(ret.new_results, arg.results, ret.max_length)

\* the sources of the records of a result mapping
SourcesOf(res) == {Scan(res)[i].page.source : i \in 1..Len(Scan(res))}

\* the number of records with the source in the query's sequence
CountOf(res, source, query) ==
    Cardinality({i \in 1..Len(Scan(res)) :
                    /\ Scan(res)[i].page_topic = query
                    /\ Scan(res)[i].page.source = source})

\* the sum of the entry's counts for the queries in S
RECURSIVE SumCounts(_, _)
SumCounts(entry, S) ==
    IF S = {} THEN 0
    ELSE LET q == CHOOSE x \in S : TRUE
         IN  DictGet(entry, q) + SumCounts(entry, S \ {q})

\* C2: for every result mapping and every query list, analyze_sources
\* returns, for each source that occurs in a record, an entry with a count for
\* every query of the list, equal to the number of records with that source in
\* the query's sequence, and a total equal to the sum of its per-query counts.
C2_CountsPerSourceAndQuery ==
    call = "done" =>
        /\ ret.err = "none"
        /\ \A src \in SourcesOf(arg.results) :
            /\ DictHas(ret.val, src)
            /\ LET entry == DictGet(ret.val, src)
               IN  /\ \A q \in Range(arg.topics) :
                        /\ DictHas(entry, q)
                        /\ DictGet(entry, q) = CountOf(arg.results, src, q)
                   /\ DictHas(entry, "total")
                   /\ DictGet(entry, "total") = SumCounts(entry, Range(arg.topics))

\* the position in the scan of the first record with the source
FirstSeen(res, source) ==
    CHOOSE i \in 1..Len(Scan(res)) :
        /\ Scan(res)[i].page.source = source
        /\ \A j \in 1..(i - 1) : Scan(res)[j].page.source # source

\* C3: the breakdown analyze_sources returns is ordered by non-increasing
\* total, and sources of equal total are in the order in which the scan of
\* the result mapping first met them.
C3_RankedByTotalStable ==
    (call = "done" /\ ret.err = "none") =>
        \A i, j \in 1..Len(ret.val) :
            i < j =>
                /\ TotalOf(ret.val[i]) >= TotalOf(ret.val[j])
                /\ TotalOf(ret.val[i]) = TotalOf(ret.val[j]) =>
                        FirstSeen(arg.results, ret.val[i].k)
                            < FirstSeen(arg.results, ret.val[j].k)

\* the cases C3 is about: a breakdown the sort had to reorder and that
\* has two sources of equal total
C3_Witness ==
    /\ call = "done"
    /\ ret.err = "none"
    /\ \E i, j \in 1..Len(ret.val) :
            /\ i < j
            /\ TotalOf(ret.val[i]) > TotalOf(ret.val[j])
            /\ FirstSeen(arg.results, ret.val[i].k) > FirstSeen(arg.results, ret.val[j].k)
    /\ \E i, j \in 1..Len(ret.val) :
            /\ i < j
            /\ TotalOf(ret.val[i]) = TotalOf(ret.val[j])

(***************************************************************************)
(* YTScraper.search: the body of the loop over the candidate records.      *)
(*                                                                         *)
(* A candidate (the value of a "videoRenderer" key) is a record of the     *)
(* fields the loop reads; each is present or not. thumbnailOverlays is a   *)
(* list of overlays, each with or without a                                *)
(* "thumbnailOverlayTimeStatusRenderer" and its text.                      *)
(***************************************************************************)
NoRecord == Record("", "")

Skip == [err |-> "none", emit |-> FALSE, rec |-> NoRecord]

Emit(rec) == [err |-> "none", emit |-> TRUE, rec |-> rec]

Fail(kind) == [err |-> kind, emit |-> FALSE, rec |-> NoRecord]

\* the loop body with a failed age normalisation caught and the candidate
\* skipped
search_iteration_skip_bad_age(video_renderer, now) ==
    IF ~video_renderer.publishedTimeText.present THEN Skip
    ELSE IF ~video_renderer.thumbnailOverlays.present THEN Fail("KeyError")
    ELSE IF Len(video_renderer.thumbnailOverlays.items) = 0 THEN Fail("IndexError")
    ELSE LET first == video_renderer.thumbnailOverlays.items[1]
             length == IF first.timeStatus THEN first.text ELSE "LIVE"
             age_str == video_renderer.publishedTimeText.simpleText
             age_sec == age_to_seconds(age_str, now)
         IN  IF age_sec.err # "none" THEN Skip
             ELSE IF ~video_renderer.ownerText.present THEN Fail("KeyError")
             ELSE IF ~video_renderer.title.present THEN Fail("KeyError")
             ELSE IF ~video_renderer.videoId.present THEN Fail("KeyError")
             ELSE Emit([page |-> 1, age |-> age_str, age_sec |-> age_sec.val,
                        source |-> video_renderer.ownerText.text,
                        title |-> video_renderer.title.text,
                        url |-> video_renderer.videoId.text,
                        length |-> length])

\* video_renderer["thumbnailOverlays"] raises KeyError without the key and
\* [0] raises IndexError on an empty list; the dict literal evaluates
\* age_to_seconds before it reads ownerText, title and videoId
search_iteration(video_renderer, now) ==
    IF ~video_renderer.publishedTimeText.present THEN Skip
    ELSE IF ~video_renderer.thumbnailOverlays.present THEN Fail("KeyError")
    ELSE IF Len(video_renderer.thumbnailOverlays.items) = 0 THEN Fail("IndexError")
    ELSE LET first == video_renderer.thumbnailOverlays.items[1]
             length == IF first.timeStatus THEN first.text ELSE "LIVE"
             age_str == video_renderer.publishedTimeText.simpleText
             age_sec == age_to_seconds(age_str, now)
         IN  IF age_sec.err # "none" THEN Fail(age_sec.err)
             ELSE IF ~video_renderer.ownerText.present THEN Fail("KeyError")
             ELSE IF ~video_renderer.title.present THEN Fail("KeyError")
             ELSE IF ~video_renderer.videoId.present THEN Fail("KeyError")
             ELSE Emit([page |-> 1, age |-> age_str, age_sec |-> age_sec.val,
                        source |-> video_renderer.ownerText.text,
                        title |-> video_renderer.title.text,
                        url |-> video_renderer.videoId.text,
                        length |-> length])

(***************************************************************************)
(* SpecParse: the loop body on one candidate record.                       *)
(***************************************************************************)
Absent == [present |-> FALSE, text |-> ""]

Present(text) == [present |-> TRUE, text |-> text]

Duration == [timeStatus |-> TRUE, text |-> "12:34"]

OtherOverlay == [timeStatus |-> FALSE, text |-> ""]

VideoRenderers ==
    [publishedTimeText :
        {[present |-> FALSE, simpleText |-> <<>>]}
            \cup [present : {TRUE},
                  simpleText : {S_vor_3_Stunden, S_vor_5_Lichtjahren,
                                S_vor_kurzem, S_15_01_2023}],
     thumbnailOverlays :
        {[present |-> FALSE, items |-> <<>>]}
            \cup [present : {TRUE},
                  items : {<<>>, <<Duration>>, <<OtherOverlay>>,
                           <<OtherOverlay, Duration>>}],
     ownerText : {Absent, Present("A"), Present("B")},
     title : {Absent, Present("title")},
     videoId : {Absent, Present("videoId")}]

InitParse == /\ MainIdle
             /\ call = "idle"
             /\ arg \in [video_renderer : VideoRenderers, now : Nows]
             /\ ret = <<>>

CallParse == /\ call = "idle"
             /\ ret' = search_iteration(arg.video_renderer, arg.now)
             /\ call' = "done"
             /\ UNCHANGED <<arg, mainvars>>

NextParse == CallParse

SpecParse == InitParse /\ [][NextParse]_vars

\* the candidate's first thumbnail overlay carries the time-status marker
FirstOverlayHasMarker(vr) ==
    /\ vr.thumbnailOverlays.present
    /\ Len(vr.thumbnailOverlays.items) > 0
    /\ vr.thumbnailOverlays.items[1].timeStatus

\* the candidate carries the time-status marker on some overlay
CarriesMarker(vr) ==
    /\ vr.thumbnailOverlays.present
    /\ \E i \in 1..Len(vr.thumbnailOverlays.items) : vr.thumbnailOverlays.items[i].timeStatus

\* the candidate's other fields are as the loop expects them: an age string
\* the normaliser accepts, and an owner, a title and an id
WellFormedElsewhere(vr, now) ==
    /\ vr.publishedTimeText.present
    /\ age_to_seconds(vr.publishedTimeText.simpleText, now).err = "none"
    /\ vr.ownerText.present
    /\ vr.title.present
    /\ vr.videoId.present

\* C7: a candidate with a published-time field (and otherwise well-formed)
\* that carries no time-status overlay marker yields a record with length
\* "LIVE" and no error; one whose first thumbnail overlay carries the marker
\* yields a record with that overlay's text as its length.
C7_LiveWithoutDurationOverlay ==
    (call = "done" /\ WellFormedElsewhere(arg.video_renderer, arg.now)) =>
        /\ ~CarriesMarker(arg.video_renderer) =>
                (ret.err = "none" /\ ret.emit /\ ret.rec.length = "LIVE")
        /\ FirstOverlayHasMarker(arg.video_renderer) =>
                /\ ret.err = "none"
                /\ ret.emit
                /\ ret.rec.length = arg.video_renderer.thumbnailOverlays.items[1].text

(***************************************************************************)
(* Spec: the run of the __main__ block. Two topic lists are scraped one    *)
(* after the other (set_topics, search_topics, search for each topic), the *)
(* result sets are trimmed to a common length and analysed. The page of a  *)
(* query is the environment's choice: the generator over its candidate     *)
(* records yields at most MaxCands of them, each any of PageRenderers.     *)
(* An exception nothing catches ends the run (pc = "failed").              *)
(***************************************************************************)
\* two topics of the first hard-coded list and one of the second stand for
\* the twenty-five of each
topics1 == <<"Olaf Scholz", "Corona">>

topics2 == <<"Plandemie">>

\* the place of a modelled topic in the order of Python's string comparison
TopicRank(t) == CASE t = "Corona" -> 1
                  [] t = "Olaf Scholz" -> 2
                  [] t = "Plandemie" -> 3

\* topics.sort()
RECURSIVE SortTopics(_, _)
SortTopics(ts, n) ==
    IF n = 0 THEN <<>>
    ELSE LET sorted == SortTopics(ts, n - 1)
             pos == Cardinality({j \in 1..Len(sorted) :
                                    TopicRank(sorted[j]) <= TopicRank(ts[n])})
         IN  SubSeq(sorted, 1, pos) \o <<ts[n]>> \o SubSeq(sorted, pos + 1, Len(sorted))

\* set_topics sorts the list it is given in place, so __main__'s topics1 and
\* topics2 are sorted from then on
set_topics(ts) == SortTopics(ts, Len(ts))

\* the candidates of the modelled pages: they have a title and an id, and
\* the records built from them are Record("A", "12:34") and Record("B", "LIVE")
PageRenderers ==
    {vr \in VideoRenderers :
        /\ vr.publishedTimeText.simpleText # S_15_01_2023
        /\ vr.title.present
        /\ vr.videoId.present
        /\ vr.ownerText = Present("A") => FirstOverlayHasMarker(vr)
        /\ vr.ownerText = Present("B") => ~FirstOverlayHasMarker(vr)}

\* the loop body reaches age_to_seconds for the candidate, and it raises
AgeNormalizationFails(vr, now) ==
    /\ vr.publishedTimeText.present
    /\ vr.thumbnailOverlays.present
    /\ Len(vr.thumbnailOverlays.items) > 0
    /\ age_to_seconds(vr.publishedTimeText.simpleText, now).err # "none"

Init == MainIdle /\ NoCall

\* scraper = YTScraper(); scraper.set_topics(topics)
SetTopics ==
    /\ pc = "set_topics"
    /\ topics' = set_topics(IF phase = 1 THEN topics1 ELSE topics2)
    /\ pages_total' = 0
    /\ results_total' = 0
    /\ found' = <<>>
    /\ ti' = 1
    /\ pc' = "search_topics"
    /\ UNCHANGED <<phase, npulled, results, returned, scraped1, scraped2, results1,
                   results2, l, analysis, error, ageFailed, callvars>>

\* search_topics: results[topic] = self.search(topic) is entered
SearchBegin ==
    /\ pc = "search_topics"
    /\ ti <= Len(topics)
    /\ pages_total' = pages_total + 1
    /\ results' = <<>>
    /\ npulled' = 0
    /\ pc' = "search"
    /\ UNCHANGED <<phase, topics, ti, found, returned, scraped1, scraped2, results1,
                   results2, l, analysis, results_total, error, ageFailed, callvars>>

\* search: one iteration of the loop over the candidates
SearchStep ==
    /\ pc = "search"
    /\ npulled < MaxCands
    /\ \E vr \in PageRenderers, now \in Nows :
        LET out == search_iteration(vr, now)
        IN  /\ npulled' = npulled + 1
            /\ ageFailed' = (ageFailed \/ AgeNormalizationFails(vr, now))
            /\ IF out.err # "none"
               THEN /\ pc' = "failed"
                    /\ error' = out.err
                    /\ UNCHANGED <<results, results_total>>
               ELSE /\ results' = IF out.emit THEN Append(results, out.rec) ELSE results
                    /\ results_total' = IF out.emit THEN results_total + 1
                                        ELSE results_total
                    /\ UNCHANGED <<pc, error>>
    /\ UNCHANGED <<phase, topics, ti, found, returned, scraped1, scraped2, results1,
                   results2, l, analysis, pages_total, callvars>>

\* search returns: the generator is exhausted
SearchReturn ==
    /\ pc = "search"
    /\ found' = DictSet(found, topics[ti], results)
    /\ ti' = ti + 1
    /\ pc' = "search_topics"
    /\ UNCHANGED <<phase, topics, npulled, results, returned, scraped1, scraped2,
                   results1, results2, l, analysis, pages_total, results_total,
                   error, ageFailed, callvars>>

\* search_topics returns its dict to __main__
SearchTopicsReturn ==
    /\ pc = "search_topics"
    /\ ti > Len(topics)
    /\ returned' = returned \cup {phase}
    /\ scraped1' = IF phase = 1 THEN found ELSE scraped1
    /\ scraped2' = IF phase = 2 THEN found ELSE scraped2
    /\ pc' = IF phase = 1 THEN "trim1" ELSE "trim2"
    /\ UNCHANGED <<phase, topics, ti, npulled, results, found, results1, results2, l,
                   analysis, pages_total, results_total, error, ageFailed, callvars>>

\* results1, l = trim_results(results1)
Trim1 ==
    /\ pc = "trim1"
    /\ LET t == trim_results(scraped1, DefaultMaxLength)
       IN  results1' = t.new_results /\ l' = t.max_length
    /\ phase' = 2
    /\ pc' = "set_topics"
    /\ UNCHANGED <<topics, ti, npulled, results, found, returned, scraped1, scraped2,
                   results2, analysis, pages_total, results_total, error, ageFailed,
                   callvars>>

\* results2, l = trim_results(results2, l)
Trim2 ==
    /\ pc = "trim2"
    /\ LET t == trim_results(scraped2, l)
       IN  results2' = t.new_results /\ l' = t.max_length
    /\ pc' = "trim3"
    /\ UNCHANGED <<phase, topics, ti, npulled, results, found, returned, scraped1,
                   scraped2, results1, analysis, pages_total, results_total, error,
                   ageFailed, callvars>>

\* results1, l = trim_results(results1, l)
Trim3 ==
    /\ pc = "trim3"
    /\ LET t == trim_results(results1, l)
       IN  results1' = t.new_results /\ l' = t.max_length
    /\ pc' = "analyze"
    /\ UNCHANGED <<phase, topics, ti, npulled, results, found, returned, scraped1,
                   scraped2, results2, analysis, pages_total, results_total, error,
                   ageFailed, callvars>>

\* analysis1 = analyze_sources(results1, topics1), and the same for set 2
Analyze ==
    /\ pc = "analyze"
    /\ analysis' = <<analyze_sources(results1, set_topics(topics1)),
                     analyze_sources(results2, set_topics(topics2))>>
    /\ pc' = "done"
    /\ UNCHANGED <<phase, topics, ti, npulled, results, found, returned, scraped1,
                   scraped2, results1, results2, l, pages_total, results_total, error,
                   ageFailed, callvars>>

Next == \/ SetTopics
        \/ SearchBegin
        \/ SearchStep
        \/ SearchReturn
        \/ SearchTopicsReturn
        \/ Trim1
        \/ Trim2
        \/ Trim3
        \/ Analyze

Spec == Init /\ [][Next]_vars

\* the shortest sequence length over both scraped result sets
GlobalMinimum ==
    LET lens == {Len(scraped1[i].v) : i \in 1..Len(scraped1)}
                    \cup {Len(scraped2[i].v) : i \in 1..Len(scraped2)}
    IN  CHOOSE n \in lens : \A m \in lens : n <= m

\* C8: after the three trims (set 1 unbounded, set 2 bounded by l, set 1
\* again bounded by l) every sequence of both result sets has the same
\* length, the shortest length over both scraped sets, and is the prefix of
\* that length of the sequence that was scraped.
C8_EqualisedToGlobalMinimum ==
    pc \in {"analyze", "done"} =>
        /\ l = GlobalMinimum
        /\ TrimmedTo(results1, scraped1, GlobalMinimum)
        /\ TrimmedTo(results2, scraped2, GlobalMinimum)

\* the case C8 is about: set 2's shortest sequence is shorter than set 1's, so
\* that the third trim shortens set 1 again, and records remain
C8_Witness ==
    /\ pc = "done"
    /\ l >= 1
    /\ \A i \in 1..Len(scraped1) : Len(scraped1[i].v) > l
    /\ \A i \in 1..Len(results1) : Len(results1[i].v) = l

\* C10: when age normalisation fails for a candidate of a query's page, the
\* run ends there with that error: the query gets no record list (the records
\* built before are dropped with it), search is not called again, for this
\* query or a later one, and search_topics returns nothing.
C10_AgeFailureAbortsTheRun ==
    /\ [](ageFailed =>
            /\ pc = "failed"
            /\ error \in {"ValueError", "TypeError"}
            /\ ~DictHas(found, topics[ti])
            /\ pages_total = ti
            /\ phase \notin returned)
    /\ [][pc = "failed" => UNCHANGED vars]_vars

\* the case C10 is about: the failure came after a record of the same page
\* had been built, with a later query still to do
C10_Witness ==
    /\ ageFailed
    /\ pc = "failed"
    /\ Len(results) >= 1
    /\ ti < Len(topics)

====
